---- MODULE Spec2Model ----
(***************************************************************************)
(* Clustered shading of RapidGL (demo 27_clustered_shading).               *)
(*                                                                         *)
(* The specifications share the variables below.                           *)
(*                                                                         *)
(*   Spec      the host application of unnamed/part_001 (ClusteredShading):*)
(*             init_app once, then per frame update, render, render_gui,   *)
(*             one GL command group per step.                              *)
(*   SpecPipe  the device pipeline of the specification, sections 2-5:     *)
(*             Cluster Grid Builder, then per frame reset, Active Cluster  *)
(*             Marker, Active Cluster Compactor (find_unique_clusters.comp)*)
(*             Indirect Dispatch Sizer (update_cull_lights_indirect_args.  *)
(*             comp), Light Culler and shading (pbr_clustered.frag).       *)
(*             The two compute kernels and the fragment shader are         *)
(*             translated from their source; the frame driver, the grid    *)
(*             builder, the marker and the culler have no source in the    *)
(*             repository and follow the specification.                    *)
(*   SpecPipeFair  SpecPipe with the device scheduling every dispatched    *)
(*             work item.                                                  *)
(*   SpecGroups  find_unique_clusters.comp dispatched in work groups of    *)
(*             its fixed local size.                                       *)
(*   SpecLookup  computeClusterIndex3D / 1D of pbr_clustered.frag applied  *)
(*             to the fragments of a viewport, for some window and grid.   *)
(*   SpecIncludes, SpecIncludesFair  Util::LoadShaderIncludes and          *)
(*   SpecLoadFile  Util::LoadFile of core/util.cpp, applied to some files. *)
(*                                                                         *)
(* Depth is represented on the logarithmic scale the shaders use: a        *)
(* fragment at step t of DepthSteps has view_z = -near*(far/near)^(t/      *)
(* DepthSteps), so log(-view_z/near) = t*ln(far/near)/DepthSteps; the      *)
(* uniform u_log_grid_dim_y is kept in units of 1/ln(far/near).            *)
(***************************************************************************)
EXTENDS Integers, Sequences, FiniteSets, TLC

\* ------------------------------------------------------------------ bounds
GridX == 2
GridY == 1
GridZ == 2
MaxPixels == 2
MaxLights == 2
PoolCapacity == 3
MaxFrames == 2
MaxUndef == 1
MipLevels == 3
NumDirLights == 2
WorkGroupSize == 3
MaxWindow == 3
MaxIncludeLines == 2
MaxLoadLines == 4

\* ------------------------------------------------------- derived constants
m_grid_size == <<GridX, GridY, GridZ>>
clusters_count == m_grid_size[1] * m_grid_size[2] * m_grid_size[3]
ClusterIds == 0 .. (clusters_count - 1)
DepthSteps == 2 * GridZ
WindowWidth == GridX
WindowHeight == GridY
PoolSlots == 0 .. (PoolCapacity - 1)
GroupIds == 0 .. clusters_count
UndefUint == 0 .. MaxUndef

\* find_unique_clusters.comp line 16 fixes the work-group size (1024, here
\* WorkGroupSize); the smallest dispatch with a work item for every cluster
\* has NumGroups groups, and its invocations are gl_GlobalInvocationID.x.
NumGroups == (clusters_count + WorkGroupSize - 1) \div WorkGroupSize
Invocations == 0 .. (NumGroups * WorkGroupSize - 1)

\* A fragment: <<screen x, screen y, depth step>>.  Depth steps stop short
\* of the far plane: the depth pre-pass keeps geometry in front of it.
Fragments == (0 .. (WindowWidth - 1)) \X (0 .. (WindowHeight - 1)) \X (0 .. (DepthSteps - 1))

VARIABLES
  \* ---- device buffers of the pipeline
  clusters_flags,            \* ClustersFlagsSSBO.clusters_flags[]
  unique_clusters_count,     \* UniqueActiveClustersSSBO.unique_clusters_count
  unique_clusters,           \* UniqueActiveClustersSSBO.unique_clusters[]
  num_groups,                \* CullLightsDispatchArgsSSBO.num_groups
  point_light_index_counter, \* PointLightGridSSBO.point_light_index_counter
  point_light_grid,          \* PointLightGridSSBO.point_light_grid[]
  point_light_index_list,    \* PointLightIndexListSSBO.point_light_index_list[]
  point_lights,              \* PointLightSSBO.point_lights[]
  \* ---- pipeline execution
  stage,                     \* stage of the frame being executed
  frame,                     \* frames started
  depth_samples,             \* fragments of this frame's depth buffer
  marked,                    \* fragments whose marker work item has run
  cpc,                       \* compactor work item -> position
  ci,                        \* compactor work item -> local i
  gpc,                       \* culler work group -> position
  glocal,                    \* culler work group -> surviving light indices
  goffset,                   \* culler work group -> reserved offset
  oob_write,                 \* some index-pool store fell outside the pool
  stages_run,                \* stages finished in the current frame, in order
  \* ---- Cluster Grid Builder
  clusters,                  \* ClusterAABB buffer (m_clusters_ssbo_id)
  gdone,                     \* grid builder work items finished in this run
  grid_built,                \* a run of the grid builder has completed
  \* ---- host application (ClusteredShading)
  hpc,                       \* next host step
  m_point_lights_count,      \* clustered_shading.h:381
  m_point_lights,            \* host vector of point lights
  m_animate_lights,          \* clustered_shading.h:403
  m_bloom_enabled,           \* bloom switch
  uniforms,                  \* uniforms of m_clustered_pbr_shader read by the lookup
  pending,                   \* <<resource, access>>: shader writes not yet made visible
  hazard,                    \* a shader read met a pending write
  last_cmd,                  \* kind of the last GL command issued
  mip_i,                     \* bloom loop counter i
  shade_frag,                \* fragment shaded by the lighting pass
  shade_index,               \* cluster_index1D computed for shade_frag
  \* ---- fragment shader pbr_clustered.frag
  dir_lights,                \* DirLightsSSBO.dir_lights[]
  radiance_dir,              \* directional lights accumulated for shade_frag, in order
  radiance_point,            \* point-light indices evaluated for shade_frag, in order
  \* ---- Cluster Lookup applied on its own
  lookup_window,             \* <<W, H>> of the viewport the lookup's parameters come from
  lookup_index3D,            \* result of computeClusterIndex3D
  \* ---- shader loading (Util, core/util.cpp)
  fs_files,                  \* file name -> the file and its lines, or NoFile
  shader_code,               \* LoadShaderIncludes: argument of the current call, then its result
  lsi_depth,                 \* LoadShaderIncludes: calls nested so far
  util_pc,                   \* position of the Util call being made
  filetext                   \* LoadFile: the text returned

pipe_vars == <<clusters_flags, unique_clusters_count, unique_clusters, num_groups,
               point_light_index_counter, point_light_grid, point_light_index_list,
               point_lights, stage, frame, depth_samples, marked, cpc, ci,
               gpc, glocal, goffset, oob_write, stages_run>>

host_vars == <<hpc, m_point_lights_count, m_point_lights, m_animate_lights,
               m_bloom_enabled, uniforms, pending, hazard, last_cmd, mip_i,
               shade_frag, shade_index>>

grid_vars == <<clusters, gdone, grid_built>>

shade_vars == <<dir_lights, radiance_dir, radiance_point>>

lookup_vars == <<lookup_window, lookup_index3D>>

util_vars == <<fs_files, shader_code, lsi_depth, util_pc, filetext>>

vars == <<pipe_vars, host_vars, grid_vars, shade_vars, lookup_vars, util_vars>>

\* ----------------------------------------------------------- pure helpers
Range(s) == {s[i] : i \in DOMAIN s}

\* computeClusterIndex1D with the z term left unscaled by the y dimension:
\* x + (Gx * y + Gy * z).
computeClusterIndex1D_ZUnscaled(u_grid_dim, cluster_index3D) ==
  cluster_index3D[1] + (u_grid_dim[1] * cluster_index3D[2] + u_grid_dim[2] * cluster_index3D[3])

\* pbr_clustered.frag: computeClusterIndex1D
computeClusterIndex1D(u_grid_dim, cluster_index3D) ==
  cluster_index3D[1] + (u_grid_dim[1] * (cluster_index3D[2] + u_grid_dim[2] * cluster_index3D[3]))

\* uint(a / b) of a float a >= 0.5 by an unsigned b: b = 0 gives +inf, whose
\* conversion to uint is undefined.
UintOfQuotient(a, b) == IF b = 0 THEN UndefUint ELSE {a \div b}

\* pbr_clustered.frag: computeClusterIndex3D; the set of values it can yield.
computeClusterIndex3D(u, frag) ==
  LET xs == UintOfQuotient(frag[1], u.u_cluster_size_ss[1])
      ys == UintOfQuotient(frag[2], u.u_cluster_size_ss[2])
      zs == IF u.u_near_z = 0 THEN UndefUint
            ELSE {(frag[3] * u.u_log_grid_dim_y) \div DepthSteps}
  IN  xs \X ys \X zs

ClusterIndexOf(u, frag) ==
  {computeClusterIndex1D(u.u_grid_dim, c3) : c3 \in computeClusterIndex3D(u, frag)}

\* The grid parameters of the configuration (init_app: cluster_size, grid size).
GridParams ==
  [u_near_z |-> 1, u_grid_dim |-> m_grid_size,
   u_cluster_size_ss |-> <<WindowWidth \div GridX, WindowHeight \div GridY>>,
   u_log_grid_dim_y |-> GridZ]

\* Active Cluster Marker: the cluster a depth sample falls in.
MarkerIndex(frag) == CHOOSE i \in ClusterIndexOf(GridParams, frag) : TRUE

\* ------------------------------------------- pbr_clustered.frag: main()
\* Lines 67-70: for (uint i = 0; i < dir_lights.length(); ++i) radiance +=
\* calcDirectionalLight(dir_lights[i], ...); the lights accumulated from i on.
RECURSIVE DirectionalLoop_SkipsFirst(_)
\* The loop started at i = 1.
DirectionalLoop_SkipsFirst(i) ==
  IF i + 1 < Cardinality(DOMAIN dir_lights)
  THEN <<dir_lights[i + 1]>> \o DirectionalLoop_SkipsFirst(i + 1)
  ELSE <<>>

RECURSIVE DirectionalLoop(_)
DirectionalLoop(i) ==
  IF i < Cardinality(DOMAIN dir_lights)
  THEN <<dir_lights[i]>> \o DirectionalLoop(i + 1)
  ELSE <<>>

\* Lines 77-78: point_light_grid[cluster_index1D]; an index past the buffer
\* reads anything.
ReadGrid(cluster_index1D) ==
  IF cluster_index1D \in ClusterIds
  THEN {point_light_grid[cluster_index1D]}
  ELSE [offset : UndefUint, count : UndefUint]

\* Line 82: point_light_index_list[light_index_offset + i]
ReadIndexList(slot) ==
  IF slot \in PoolSlots THEN {point_light_index_list[slot]} ELSE UndefUint

\* Lines 80-84: for (uint i = 0; i < light_count; ++i); the light indices
\* evaluated from i on, every outcome of the reads.
RECURSIVE PointLightLoop(_, _, _)
PointLightLoop(light_index_offset, light_count, i) ==
  IF i < light_count
  THEN {<<light_index>> \o rest :
          light_index \in ReadIndexList(light_index_offset + i),
          rest \in PointLightLoop(light_index_offset, light_count, i + 1)}
  ELSE {<<>>}

\* Lines 59-108 for one fragment under uniforms u: the cluster index, the
\* directional lights accumulated and the point-light indices evaluated.
FragmentMain(u, frag) ==
  UNION {
    UNION {
      {[index |-> cluster_index1D, dir |-> DirectionalLoop(0), point |-> evaluated] :
         evaluated \in PointLightLoop(entry.offset, entry.count, 0)} :
      entry \in ReadGrid(cluster_index1D)} :
    cluster_index1D \in ClusterIndexOf(u, frag)}

\* ---------------------------------------------------- lights and clusters
\* The cell (x, y, z) of a flat cluster index.
ClusterCell(id) == <<id % GridX, (id \div GridX) % GridY, id \div (GridX * GridY)>>

\* Cluster Grid Builder.  View space looks down -z; near = 1 and the depth
\* slices grow geometrically, slice k spanning the depths 2^k .. 2^(k+1), so
\* far = 2^GridZ.  Edge e of the n screen tiles of an axis is at the
\* normalised coordinate (2e - n)/n; coordinates are kept in units of 1/n.
SliceDepth(k) == 2 ^ k
TileEdge(e, n) == 2 * e - n

\* The view ray through a tile corner meets the plane z = -d at
\* (ndc_x * d, ndc_y * d, -d).
ViewPoint(ex, ey, d) == <<TileEdge(ex, GridX) * d, TileEdge(ey, GridY) * d, 0 - d>>

\* The 8 corners of a cluster: 4 tile corners on the slice's near and far plane.
ClusterCorners(id) ==
  LET c == ClusterCell(id)
  IN  {ViewPoint(ex, ey, d) : ex \in {c[1], c[1] + 1}, ey \in {c[2], c[2] + 1},
                              d \in {SliceDepth(c[3]), SliceDepth(c[3] + 1)}}

MinOf(S) == CHOOSE m \in S : \A x \in S : m <= x
MaxOf(S) == CHOOSE m \in S : \A x \in S : m >= x

\* The ClusterAABB of a cluster: component-wise min and max of its corners.
ClusterAABB(id) ==
  LET P == ClusterCorners(id)
  IN  [min |-> <<MinOf({p[1] : p \in P}), MinOf({p[2] : p \in P}), MinOf({p[3] : p \in P})>>,
       max |-> <<MaxOf({p[1] : p \in P}), MaxOf({p[2] : p \in P}), MaxOf({p[3] : p \in P})>>]

\* A ClusterAABB whose min words are lo and whose max words are hi.
FilledAABB(lo, hi) == [min |-> <<lo, lo, lo>>, max |-> <<hi, hi, hi>>]

\* Point lights the light generator can produce: <<position, radius>>.
LightCatalog ==
  { [position |-> <<0 - 1, 0, 0 - 1>>, radius |-> 1],
    [position |-> <<3, 0, 0 - 3>>, radius |-> 0] }

Clamp(v, lo, hi) == IF v < lo THEN lo ELSE IF v > hi THEN hi ELSE v
SqDistPointAABB(p, box) ==
  LET d(k) == p[k] - Clamp(p[k], box.min[k], box.max[k])
  IN  d(1) * d(1) + d(2) * d(2) + d(3) * d(3)

\* Sphere/AABB overlap test, closed: a tangent sphere overlaps.
SphereAABBOverlap(light, box) ==
  SqDistPointAABB(light.position, box) <= light.radius * light.radius

LightLists == UNION {[0 .. (n - 1) -> LightCatalog] : n \in 0 .. MaxLights}
NumLights == Cardinality(DOMAIN point_lights)

RECURSIVE Survivors(_, _)
\* Indices i < n of the lights overlapping the stored AABB of cluster id,
\* ascending.
Survivors(id, n) ==
  IF n = 0 THEN <<>>
  ELSE LET rest == Survivors(id, n - 1)
       IN  IF SphereAABBOverlap(point_lights[n - 1], clusters[id])
           THEN Append(rest, n - 1) ELSE rest

\* ------------------------------------------------- Util (core/util.cpp)
\* A line of text is the phrase it begins with, if it is one the loader
\* looks for, and the rest of the line.
include_phrase == "#include"
skip_begin_phrase == "#ifdef __cplusplus"
skip_end_phrase == "#endif"
IncludeLine(name) == [head |-> include_phrase, tail |-> name]
BareInclude == [head |-> include_phrase, tail |-> ""]
TextLine(t) == [head |-> "", tail |-> t]
EmptyLine == [head |-> "", tail |-> ""]
SkipBeginLine == [head |-> skip_begin_phrase, tail |-> ""]
SkipEndLine == [head |-> skip_end_phrase, tail |-> ""]
IfLine == [head |-> "#if", tail |-> "x"]

\* line.substr(0, phrase.size()) == phrase
StartsWith(line, phrase) == line.head = phrase

FileNames == {"a", "b"}
\* A directory entry: a file with its lines, or no file of that name.
File(lines) == [exists |-> TRUE, lines |-> lines]
NoFile == [exists |-> FALSE, lines |-> <<>>]
SeqsUpTo(S, n) == UNION {[1 .. k -> S] : k \in 0 .. n}

\* Util::LoadFile lines 39-55: the lines kept from line i on, skip as it is
\* before line i.
RECURSIVE LoadFileLines(_, _, _)
LoadFileLines(lines, i, skip) ==
  IF i > Len(lines) THEN <<>>
  ELSE LET line == lines[i]
           skipNow == skip \/ StartsWith(line, skip_begin_phrase)
           kept == IF ~skipNow THEN <<line>> ELSE <<>>
           skipNext == IF StartsWith(line, skip_end_phrase) THEN FALSE ELSE skipNow
       IN  kept \o LoadFileLines(lines, i + 1, skipNext)

\* Util::LoadFile: "" for a file that cannot be opened, else the kept lines,
\* each followed by a newline.
LoadFile(filename) ==
  IF ~fs_files[filename].exists THEN <<>>
  ELSE LoadFileLines(fs_files[filename].lines, 1, FALSE)

\* Util::LoadShaderIncludes line 75: line.substr(include_phrase.size() + 2,
\* ...) throws std::out_of_range on a line shorter than the phrase and two
\* more characters.
SubstrThrows(code) ==
  \E i \in DOMAIN code : StartsWith(code[i], include_phrase) /\ code[i].tail = ""

\* Lines 69-79: some line of the code is an include.
Included(code) == \E i \in DOMAIN code : StartsWith(code[i], include_phrase)

\* Lines 71-82: the text built from line i on: an include line is replaced
\* by the text LoadFile returns and a newline, any other line is copied.
RECURSIVE NewShaderCode(_, _)
NewShaderCode(code, i) ==
  IF i > Len(code) THEN <<>>
  ELSE (IF StartsWith(code[i], include_phrase)
        THEN LoadFile(code[i].tail) \o <<EmptyLine>>
        ELSE <<code[i]>>) \o NewShaderCode(code, i + 1)

\* No shader is being loaded.
UtilIdle ==
  /\ fs_files = [f \in FileNames |-> NoFile]
  /\ shader_code = <<>>
  /\ lsi_depth = 0
  /\ util_pc = "off"
  /\ filetext = <<>>

\* ------------------------------------------------------------------- Init
\* Uniform values of a freshly linked program: all zero.
UniformDefaults ==
  [u_near_z |-> 0, u_grid_dim |-> <<0, 0, 0>>,
   u_cluster_size_ss |-> <<0, 0>>, u_log_grid_dim_y |-> 0]

NoFragment == <<>>

\* The host variables while only the device pipeline is observed: the
\* lookup has been given the grid parameters.
HostIdle ==
  /\ hpc = "off"
  /\ m_point_lights_count = 0
  /\ m_point_lights = <<>>
  /\ m_animate_lights = FALSE
  /\ m_bloom_enabled = TRUE
  /\ uniforms = GridParams
  /\ pending = {}
  /\ hazard = FALSE
  /\ last_cmd = "other"
  /\ mip_i = 0
  /\ shade_frag = NoFragment
  /\ shade_index = 0

PipeInit ==
  /\ clusters_flags = [c \in ClusterIds |-> FALSE]
  /\ unique_clusters_count = 0
  /\ unique_clusters = [i \in ClusterIds |-> 0]
  /\ num_groups = <<0, 0, 0>>
  /\ point_light_index_counter = 0
  /\ point_light_grid = [c \in ClusterIds |-> [offset |-> 0, count |-> 0]]
  /\ point_light_index_list = [s \in PoolSlots |-> 0]
  /\ point_lights \in LightLists
  /\ stage = "build"
  /\ frame = 0
  /\ depth_samples = {}
  /\ marked = {}
  /\ cpc = [c \in ClusterIds |-> "done"]
  /\ ci = [c \in ClusterIds |-> 0]
  /\ gpc = [g \in GroupIds |-> "idle"]
  /\ glocal = [g \in GroupIds |-> <<>>]
  /\ goffset = [g \in GroupIds |-> 0]
  /\ oob_write = FALSE
  /\ stages_run = <<>>
  /\ clusters = [c \in ClusterIds |-> FilledAABB(0, 0)]
  /\ gdone = {}
  /\ grid_built = FALSE
  /\ dir_lights = [i \in 0 .. (NumDirLights - 1) |-> i]
  /\ radiance_dir = <<>>
  /\ radiance_point = <<>>
  /\ lookup_window = <<WindowWidth, WindowHeight>>
  /\ lookup_index3D = <<0, 0, 0>>
  /\ UtilIdle
  /\ HostIdle

\* ----------------------------------------------------- Cluster Grid Builder
host_ctl_vars == <<hpc, m_point_lights_count, m_point_lights, m_animate_lights,
                   m_bloom_enabled, uniforms, pending, hazard, last_cmd, mip_i>>

\* The work item adding its box onto the stored entry.
GenerateCluster_AddsToStored(c) ==
  /\ stage = "build"
  /\ c \in ClusterIds \ gdone
  /\ clusters' = [clusters EXCEPT ![c] =
                    [min |-> [k \in 1 .. 3 |-> clusters[c].min[k] + ClusterAABB(c).min[k]],
                     max |-> [k \in 1 .. 3 |-> clusters[c].max[k] + ClusterAABB(c).max[k]]]]
  /\ gdone' = gdone \cup {c}
  /\ UNCHANGED <<grid_built, pipe_vars, host_vars, shade_vars>>
  /\ UNCHANGED lookup_vars
  /\ UNCHANGED util_vars

\* Work item c of the grid builder stores the AABB of cluster c.
GenerateCluster(c) ==
  /\ stage = "build"
  /\ c \in ClusterIds \ gdone
  /\ clusters' = [clusters EXCEPT ![c] = ClusterAABB(c)]
  /\ gdone' = gdone \cup {c}
  /\ UNCHANGED <<grid_built, pipe_vars, host_vars, shade_vars>>
  /\ UNCHANGED lookup_vars
  /\ UNCHANGED util_vars

\* Every work item of the run has finished; barrier.
GridBuilderDone ==
  /\ stage = "build"
  /\ gdone = ClusterIds
  /\ stage' = "idle"
  /\ gdone' = {}
  /\ grid_built' = TRUE
  /\ UNCHANGED <<clusters, clusters_flags, unique_clusters_count, unique_clusters,
                 num_groups, point_light_index_counter, point_light_grid,
                 point_light_index_list, point_lights, frame, depth_samples, marked,
                 cpc, ci, gpc, glocal, goffset, oob_write, stages_run>>
  /\ UNCHANGED <<host_vars, shade_vars>>
  /\ UNCHANGED lookup_vars
  /\ UNCHANGED util_vars

\* The grid builder is run again between two frames, camera and grid as before.
RebuildGrid ==
  /\ stage = "idle"
  /\ grid_built
  /\ frame < MaxFrames
  /\ stage' = "build"
  /\ UNCHANGED <<clusters, gdone, grid_built, clusters_flags, unique_clusters_count,
                 unique_clusters, num_groups, point_light_index_counter,
                 point_light_grid, point_light_index_list, point_lights, frame,
                 depth_samples, marked, cpc, ci, gpc, glocal, goffset, oob_write,
                 stages_run>>
  /\ UNCHANGED <<host_vars, shade_vars>>
  /\ UNCHANGED lookup_vars
  /\ UNCHANGED util_vars

\* ---------------------------------------------------------- frame driver
\* Start of a frame: the three shared resources are reset to zero and the
\* depth pre-pass leaves this frame's depth samples.
BeginFrame ==
  /\ stage = "idle"
  /\ frame < MaxFrames
  /\ \E D \in SUBSET Fragments :
       /\ Cardinality(D) <= MaxPixels
       /\ depth_samples' = D
  /\ clusters_flags' = [c \in ClusterIds |-> FALSE]
  /\ unique_clusters_count' = 0
  /\ point_light_index_counter' = 0
  /\ marked' = {}
  /\ frame' = frame + 1
  /\ stage' = "mark"
  /\ stages_run' = <<>>
  /\ oob_write' = FALSE
  /\ UNCHANGED <<unique_clusters, num_groups, point_light_grid, point_light_index_list,
                 point_lights, cpc, ci, gpc, glocal, goffset>>
  /\ UNCHANGED host_vars
  /\ UNCHANGED grid_vars
  /\ UNCHANGED shade_vars
  /\ UNCHANGED lookup_vars
  /\ UNCHANGED util_vars

\* The marker work item flipping the flag it finds instead of setting it.
MarkPixel_Flips(f) ==
  /\ stage = "mark"
  /\ f \in depth_samples \ marked
  /\ clusters_flags' = [clusters_flags EXCEPT ![MarkerIndex(f)] = ~clusters_flags[MarkerIndex(f)]]
  /\ marked' = marked \cup {f}
  /\ UNCHANGED <<unique_clusters_count, unique_clusters, num_groups,
                 point_light_index_counter, point_light_grid, point_light_index_list,
                 point_lights, stage, frame, depth_samples, cpc, ci, gpc, glocal,
                 goffset, oob_write, stages_run>>
  /\ UNCHANGED host_vars
  /\ UNCHANGED grid_vars
  /\ UNCHANGED shade_vars
  /\ UNCHANGED lookup_vars
  /\ UNCHANGED util_vars

\* Active Cluster Marker, one work item per depth sample.
MarkPixel(f) ==
  /\ stage = "mark"
  /\ f \in depth_samples \ marked
  /\ clusters_flags' = [clusters_flags EXCEPT ![MarkerIndex(f)] = TRUE]
  /\ marked' = marked \cup {f}
  /\ UNCHANGED <<unique_clusters_count, unique_clusters, num_groups,
                 point_light_index_counter, point_light_grid, point_light_index_list,
                 point_lights, stage, frame, depth_samples, cpc, ci, gpc, glocal,
                 goffset, oob_write, stages_run>>
  /\ UNCHANGED host_vars
  /\ UNCHANGED grid_vars
  /\ UNCHANGED shade_vars
  /\ UNCHANGED lookup_vars
  /\ UNCHANGED util_vars

\* Marker finished; barrier; the compactor is dispatched, one work item per
\* cluster.  A work item whose flag is clear (find_unique_clusters.comp line
\* 20) returns without touching shared state: it is finished as dispatched.
DispatchCompactor ==
  /\ stage = "mark"
  /\ marked = depth_samples
  /\ stage' = "compact"
  /\ cpc' = [c \in ClusterIds |-> IF clusters_flags[c] THEN "add" ELSE "done"]
  /\ stages_run' = Append(stages_run, "mark")
  /\ UNCHANGED <<clusters_flags, unique_clusters_count, unique_clusters, num_groups,
                 point_light_index_counter, point_light_grid, point_light_index_list,
                 point_lights, frame, depth_samples, marked, ci, gpc, glocal,
                 goffset, oob_write>>
  /\ UNCHANGED host_vars
  /\ UNCHANGED grid_vars
  /\ UNCHANGED shade_vars
  /\ UNCHANGED lookup_vars
  /\ UNCHANGED util_vars

\* CompactAtomicAdd with the incremented value taken as the index.
CompactAtomicAdd_OffByOne(cluster_id) ==
  /\ stage = "compact"
  /\ cpc[cluster_id] = "add"
  /\ ci' = [ci EXCEPT ![cluster_id] = unique_clusters_count + 1]
  /\ unique_clusters_count' = unique_clusters_count + 1
  /\ cpc' = [cpc EXCEPT ![cluster_id] = "store"]
  /\ UNCHANGED <<clusters_flags, unique_clusters, num_groups,
                 point_light_index_counter, point_light_grid, point_light_index_list,
                 point_lights, stage, frame, depth_samples, marked, gpc, glocal,
                 goffset, oob_write, stages_run>>
  /\ UNCHANGED host_vars
  /\ UNCHANGED grid_vars
  /\ UNCHANGED shade_vars
  /\ UNCHANGED lookup_vars
  /\ UNCHANGED util_vars

\* The add done as a plain read and write: the increment is lost while
\* another work item is between its add and its store.
CompactAtomicAdd_LostUpdate(cluster_id) ==
  /\ stage = "compact"
  /\ cpc[cluster_id] = "add"
  /\ ci' = [ci EXCEPT ![cluster_id] = unique_clusters_count]
  /\ unique_clusters_count' = IF \E c \in ClusterIds : cpc[c] = "store"
                               THEN unique_clusters_count
                               ELSE unique_clusters_count + 1
  /\ cpc' = [cpc EXCEPT ![cluster_id] = "store"]
  /\ UNCHANGED <<clusters_flags, unique_clusters, num_groups,
                 point_light_index_counter, point_light_grid, point_light_index_list,
                 point_lights, stage, frame, depth_samples, marked, gpc, glocal,
                 goffset, oob_write, stages_run>>
  /\ UNCHANGED host_vars
  /\ UNCHANGED grid_vars
  /\ UNCHANGED shade_vars
  /\ UNCHANGED lookup_vars
  /\ UNCHANGED util_vars

\* find_unique_clusters.comp line 22: uint i = atomicAdd(unique_clusters_count, 1)
CompactAtomicAdd(cluster_id) ==
  /\ stage = "compact"
  /\ cpc[cluster_id] = "add"
  /\ ci' = [ci EXCEPT ![cluster_id] = unique_clusters_count]
  /\ unique_clusters_count' = unique_clusters_count + 1
  /\ cpc' = [cpc EXCEPT ![cluster_id] = "store"]
  /\ UNCHANGED <<clusters_flags, unique_clusters, num_groups,
                 point_light_index_counter, point_light_grid, point_light_index_list,
                 point_lights, stage, frame, depth_samples, marked, gpc, glocal,
                 goffset, oob_write, stages_run>>
  /\ UNCHANGED host_vars
  /\ UNCHANGED grid_vars
  /\ UNCHANGED shade_vars
  /\ UNCHANGED lookup_vars
  /\ UNCHANGED util_vars

\* CompactStore storing the slot index instead of the cluster id.
CompactStore_StoresIndex(cluster_id) ==
  /\ stage = "compact"
  /\ cpc[cluster_id] = "store"
  /\ unique_clusters' = IF ci[cluster_id] \in ClusterIds
                        THEN [unique_clusters EXCEPT ![ci[cluster_id]] = ci[cluster_id]]
                        ELSE unique_clusters
  /\ cpc' = [cpc EXCEPT ![cluster_id] = "done"]
  /\ UNCHANGED <<clusters_flags, unique_clusters_count, num_groups,
                 point_light_index_counter, point_light_grid, point_light_index_list,
                 point_lights, stage, frame, depth_samples, marked, ci, gpc, glocal,
                 goffset, oob_write, stages_run>>
  /\ UNCHANGED host_vars
  /\ UNCHANGED grid_vars
  /\ UNCHANGED shade_vars
  /\ UNCHANGED lookup_vars
  /\ UNCHANGED util_vars

\* CompactStore holding its store back until every other work item of the
\* dispatch is done.
CompactStore_WaitsForOthers(cluster_id) ==
  /\ stage = "compact"
  /\ cpc[cluster_id] = "store"
  /\ \A c \in ClusterIds \ {cluster_id} : cpc[c] = "done"
  /\ unique_clusters' = IF ci[cluster_id] \in ClusterIds
                        THEN [unique_clusters EXCEPT ![ci[cluster_id]] = cluster_id]
                        ELSE unique_clusters
  /\ cpc' = [cpc EXCEPT ![cluster_id] = "done"]
  /\ UNCHANGED <<clusters_flags, unique_clusters_count, num_groups,
                 point_light_index_counter, point_light_grid, point_light_index_list,
                 point_lights, stage, frame, depth_samples, marked, ci, gpc, glocal,
                 goffset, oob_write, stages_run>>
  /\ UNCHANGED host_vars
  /\ UNCHANGED grid_vars
  /\ UNCHANGED shade_vars
  /\ UNCHANGED lookup_vars
  /\ UNCHANGED util_vars

\* find_unique_clusters.comp line 23: unique_clusters[i] = cluster_id
CompactStore(cluster_id) ==
  /\ stage = "compact"
  /\ cpc[cluster_id] = "store"
  /\ unique_clusters' = IF ci[cluster_id] \in ClusterIds
                        THEN [unique_clusters EXCEPT ![ci[cluster_id]] = cluster_id]
                        ELSE unique_clusters
  /\ cpc' = [cpc EXCEPT ![cluster_id] = "done"]
  /\ UNCHANGED <<clusters_flags, unique_clusters_count, num_groups,
                 point_light_index_counter, point_light_grid, point_light_index_list,
                 point_lights, stage, frame, depth_samples, marked, ci, gpc, glocal,
                 goffset, oob_write, stages_run>>
  /\ UNCHANGED host_vars
  /\ UNCHANGED grid_vars
  /\ UNCHANGED shade_vars
  /\ UNCHANGED lookup_vars
  /\ UNCHANGED util_vars

\* Compactor finished; barrier; the sizer is dispatched.
DispatchSizer ==
  /\ stage = "compact"
  /\ \A c \in ClusterIds : cpc[c] = "done"
  /\ stage' = "size"
  /\ stages_run' = Append(stages_run, "compact")
  /\ UNCHANGED <<clusters_flags, unique_clusters_count, unique_clusters, num_groups,
                 point_light_index_counter, point_light_grid, point_light_index_list,
                 point_lights, frame, depth_samples, marked, cpc, ci, gpc, glocal,
                 goffset, oob_write>>
  /\ UNCHANGED host_vars
  /\ UNCHANGED grid_vars
  /\ UNCHANGED shade_vars
  /\ UNCHANGED lookup_vars
  /\ UNCHANGED util_vars

\* The sizer with uvec3(unique_clusters_count): the count in all components.
UpdateCullLightsIndirectArgs_Splat ==
  /\ stage = "size"
  /\ num_groups' = <<unique_clusters_count, unique_clusters_count, unique_clusters_count>>
  /\ stage' = "sized"
  /\ stages_run' = Append(stages_run, "size")
  /\ UNCHANGED <<clusters_flags, unique_clusters_count, unique_clusters,
                 point_light_index_counter, point_light_grid, point_light_index_list,
                 point_lights, frame, depth_samples, marked, cpc, ci, gpc, glocal,
                 goffset, oob_write>>
  /\ UNCHANGED host_vars
  /\ UNCHANGED grid_vars
  /\ UNCHANGED shade_vars
  /\ UNCHANGED lookup_vars
  /\ UNCHANGED util_vars

\* The sizer never asking for fewer than one work group.
UpdateCullLightsIndirectArgs_AtLeastOne ==
  /\ stage = "size"
  /\ num_groups' = <<IF unique_clusters_count = 0 THEN 1 ELSE unique_clusters_count, 1, 1>>
  /\ stage' = "sized"
  /\ stages_run' = Append(stages_run, "size")
  /\ UNCHANGED <<clusters_flags, unique_clusters_count, unique_clusters,
                 point_light_index_counter, point_light_grid, point_light_index_list,
                 point_lights, frame, depth_samples, marked, cpc, ci, gpc, glocal,
                 goffset, oob_write>>
  /\ UNCHANGED host_vars
  /\ UNCHANGED grid_vars
  /\ UNCHANGED shade_vars
  /\ UNCHANGED lookup_vars
  /\ UNCHANGED util_vars

\* update_cull_lights_indirect_args.comp line 18:
\* num_groups = uvec3(unique_clusters_count, 1, 1)
UpdateCullLightsIndirectArgs ==
  /\ stage = "size"
  /\ num_groups' = <<unique_clusters_count, 1, 1>>
  /\ stage' = "sized"
  /\ stages_run' = Append(stages_run, "size")
  /\ UNCHANGED <<clusters_flags, unique_clusters_count, unique_clusters,
                 point_light_index_counter, point_light_grid, point_light_index_list,
                 point_lights, frame, depth_samples, marked, cpc, ci, gpc, glocal,
                 goffset, oob_write>>
  /\ UNCHANGED host_vars
  /\ UNCHANGED grid_vars
  /\ UNCHANGED shade_vars
  /\ UNCHANGED lookup_vars
  /\ UNCHANGED util_vars

\* Barrier; the Light Culler is dispatched indirectly with num_groups work
\* groups.
DispatchCuller ==
  /\ stage = "sized"
  /\ stage' = "cull"
  /\ gpc' = [g \in GroupIds |->
               IF g < num_groups[1] * num_groups[2] * num_groups[3]
               THEN "test" ELSE "idle"]
  /\ glocal' = [g \in GroupIds |-> <<>>]
  /\ goffset' = [g \in GroupIds |-> 0]
  /\ UNCHANGED <<clusters_flags, unique_clusters_count, unique_clusters, num_groups,
                 point_light_index_counter, point_light_grid, point_light_index_list,
                 point_lights, frame, depth_samples, marked, cpc, ci, oob_write,
                 stages_run>>
  /\ UNCHANGED host_vars
  /\ UNCHANGED grid_vars
  /\ UNCHANGED shade_vars
  /\ UNCHANGED lookup_vars
  /\ UNCHANGED util_vars

\* Work group g taking the cluster whose id is its own group id.
GroupCluster_OwnId(g) == IF g \in ClusterIds THEN g ELSE 0

\* The cluster work group g culls: entry g of the active-cluster list.
GroupCluster(g) == IF g \in ClusterIds THEN unique_clusters[g] ELSE 0

\* CullReserve bumping the counter by one instead of by the group's count.
CullReserve_BumpOne(g) ==
  /\ stage = "cull"
  /\ gpc[g] = "test"
  /\ LET local == Survivors(GroupCluster(g), NumLights)
     IN  /\ glocal' = [glocal EXCEPT ![g] = local]
         /\ goffset' = [goffset EXCEPT ![g] = point_light_index_counter]
         /\ point_light_index_counter' = point_light_index_counter + 1
  /\ gpc' = [gpc EXCEPT ![g] = "write"]
  /\ UNCHANGED <<clusters_flags, unique_clusters_count, unique_clusters, num_groups,
                 point_light_grid, point_light_index_list,
                 point_lights, stage, frame, depth_samples, marked, cpc, ci,
                 oob_write, stages_run>>
  /\ UNCHANGED host_vars
  /\ UNCHANGED grid_vars
  /\ UNCHANGED shade_vars
  /\ UNCHANGED lookup_vars
  /\ UNCHANGED util_vars

\* Light Culler: test every light against the cluster's AABB, accumulating
\* the surviving indices locally, then one atomic bump of the allocation
\* counter reserves the group's range.
CullReserve(g) ==
  /\ stage = "cull"
  /\ gpc[g] = "test"
  /\ LET local == Survivors(GroupCluster(g), NumLights)
     IN  /\ glocal' = [glocal EXCEPT ![g] = local]
         /\ goffset' = [goffset EXCEPT ![g] = point_light_index_counter]
         /\ point_light_index_counter' = point_light_index_counter + Len(local)
  /\ gpc' = [gpc EXCEPT ![g] = "write"]
  /\ UNCHANGED <<clusters_flags, unique_clusters_count, unique_clusters, num_groups,
                 point_light_grid, point_light_index_list,
                 point_lights, stage, frame, depth_samples, marked, cpc, ci,
                 oob_write, stages_run>>
  /\ UNCHANGED host_vars
  /\ UNCHANGED grid_vars
  /\ UNCHANGED shade_vars
  /\ UNCHANGED lookup_vars
  /\ UNCHANGED util_vars

\* CullWrite recording the end of the reserved range as the entry's offset.
CullWrite_OffsetAfter(g) ==
  /\ stage = "cull"
  /\ gpc[g] = "write"
  /\ point_light_index_list' =
       [s \in PoolSlots |->
          IF s >= goffset[g] /\ s < goffset[g] + Len(glocal[g])
          THEN glocal[g][s - goffset[g] + 1]
          ELSE point_light_index_list[s]]
  /\ oob_write' = (oob_write \/ goffset[g] + Len(glocal[g]) > PoolCapacity)
  /\ point_light_grid' = [point_light_grid EXCEPT ![GroupCluster(g)] =
                            [offset |-> goffset[g] + Len(glocal[g]),
                             count |-> Len(glocal[g])]]
  /\ gpc' = [gpc EXCEPT ![g] = "done"]
  /\ UNCHANGED <<clusters_flags, unique_clusters_count, unique_clusters, num_groups,
                 point_light_index_counter,
                 point_lights, stage, frame, depth_samples, marked, cpc, ci,
                 glocal, goffset, stages_run>>
  /\ UNCHANGED host_vars
  /\ UNCHANGED grid_vars
  /\ UNCHANGED shade_vars
  /\ UNCHANGED lookup_vars
  /\ UNCHANGED util_vars

\* Light Culler: write the surviving indices into the reserved range and the
\* {offset, count} entry of the group's own cluster.  There is no bounds
\* check: a store past the pool's end leaves the pool as it is.
CullWrite(g) ==
  /\ stage = "cull"
  /\ gpc[g] = "write"
  /\ point_light_index_list' =
       [s \in PoolSlots |->
          IF s >= goffset[g] /\ s < goffset[g] + Len(glocal[g])
          THEN glocal[g][s - goffset[g] + 1]
          ELSE point_light_index_list[s]]
  /\ oob_write' = (oob_write \/ goffset[g] + Len(glocal[g]) > PoolCapacity)
  /\ point_light_grid' = [point_light_grid EXCEPT ![GroupCluster(g)] =
                            [offset |-> goffset[g], count |-> Len(glocal[g])]]
  /\ gpc' = [gpc EXCEPT ![g] = "done"]
  /\ UNCHANGED <<clusters_flags, unique_clusters_count, unique_clusters, num_groups,
                 point_light_index_counter,
                 point_lights, stage, frame, depth_samples, marked, cpc, ci,
                 glocal, goffset, stages_run>>
  /\ UNCHANGED host_vars
  /\ UNCHANGED grid_vars
  /\ UNCHANGED shade_vars
  /\ UNCHANGED lookup_vars
  /\ UNCHANGED util_vars

\* Culler finished; barrier; the frame's grid is ready for shading.  The
\* work items' locals die with their dispatch.
DispatchShading ==
  /\ stage = "cull"
  /\ \A g \in GroupIds : gpc[g] \in {"idle", "done"}
  /\ stage' = "shade"
  /\ stages_run' = Append(stages_run, "cull")
  /\ cpc' = [c \in ClusterIds |-> "done"]
  /\ ci' = [c \in ClusterIds |-> 0]
  /\ gpc' = [g \in GroupIds |-> "idle"]
  /\ glocal' = [g \in GroupIds |-> <<>>]
  /\ goffset' = [g \in GroupIds |-> 0]
  /\ UNCHANGED <<clusters_flags, unique_clusters_count, unique_clusters, num_groups,
                 point_light_index_counter, point_light_grid, point_light_index_list,
                 point_lights, frame, depth_samples, marked, oob_write>>
  /\ UNCHANGED host_vars
  /\ UNCHANGED grid_vars
  /\ UNCHANGED shade_vars
  /\ UNCHANGED lookup_vars
  /\ UNCHANGED util_vars

\* The fragment shader invocation that also bumps the allocation counter.
ShadeFragment_BumpsCounter(f) ==
  /\ stage = "shade"
  /\ f \in depth_samples
  /\ \E r \in FragmentMain(uniforms, f) :
       /\ shade_frag' = f
       /\ shade_index' = r.index
       /\ radiance_dir' = r.dir
       /\ radiance_point' = r.point
  /\ point_light_index_counter' = point_light_index_counter + 1
  /\ UNCHANGED <<clusters_flags, unique_clusters_count, unique_clusters, num_groups,
                 point_light_grid, point_light_index_list,
                 point_lights, stage, frame, depth_samples, marked, cpc, ci, gpc,
                 glocal, goffset, oob_write, stages_run>>
  /\ UNCHANGED <<host_ctl_vars, grid_vars, dir_lights>>
  /\ UNCHANGED lookup_vars
  /\ UNCHANGED util_vars

\* Shading stage: one invocation of pbr_clustered.frag main() for a fragment
\* of the depth buffer.
ShadeFragment(f) ==
  /\ stage = "shade"
  /\ f \in depth_samples
  /\ \E r \in FragmentMain(uniforms, f) :
       /\ shade_frag' = f
       /\ shade_index' = r.index
       /\ radiance_dir' = r.dir
       /\ radiance_point' = r.point
  /\ UNCHANGED <<clusters_flags, unique_clusters_count, unique_clusters, num_groups,
                 point_light_index_counter, point_light_grid, point_light_index_list,
                 point_lights, stage, frame, depth_samples, marked, cpc, ci, gpc,
                 glocal, goffset, oob_write, stages_run>>
  /\ UNCHANGED <<host_ctl_vars, grid_vars, dir_lights>>
  /\ UNCHANGED lookup_vars
  /\ UNCHANGED util_vars

\* The shading pass is over: the frame ends and its fragment invocations
\* with it.
EndFrame ==
  /\ stage = "shade"
  /\ depth_samples = {} \/ shade_frag # NoFragment
  /\ stage' = "idle"
  /\ shade_frag' = NoFragment
  /\ shade_index' = 0
  /\ radiance_dir' = <<>>
  /\ radiance_point' = <<>>
  /\ UNCHANGED <<clusters_flags, unique_clusters_count, unique_clusters, num_groups,
                 point_light_index_counter, point_light_grid, point_light_index_list,
                 point_lights, frame, depth_samples, marked, cpc, ci, gpc,
                 glocal, goffset, oob_write, stages_run>>
  /\ UNCHANGED <<host_ctl_vars, grid_vars, dir_lights>>
  /\ UNCHANGED lookup_vars
  /\ UNCHANGED util_vars

PipeNext ==
  \/ \E c \in ClusterIds : GenerateCluster(c)
  \/ GridBuilderDone
  \/ RebuildGrid
  \/ BeginFrame
  \/ \E f \in Fragments : MarkPixel(f)
  \/ DispatchCompactor
  \/ \E c \in ClusterIds : CompactAtomicAdd(c)
  \/ \E c \in ClusterIds : CompactStore(c)
  \/ DispatchSizer
  \/ UpdateCullLightsIndirectArgs
  \/ DispatchCuller
  \/ \E g \in GroupIds : CullReserve(g)
  \/ \E g \in GroupIds : CullWrite(g)
  \/ DispatchShading
  \/ \E f \in Fragments : ShadeFragment(f)
  \/ EndFrame

SpecPipe == PipeInit /\ [][PipeNext]_vars

\* =========================================================== host program
\* How later commands read each resource a compute shader writes.
ReadVia(resource) == IF resource = "point_lights" THEN {"ssbo"} ELSE {"image", "texture"}
Written(resource) == {<<resource, a>> : a \in ReadVia(resource)}
\* glMemoryBarrier(bits): writes become visible to the accesses named by bits.
AfterBarrier(p, bits) == {w \in p : w[2] \notin bits}

CatalogPositions == {l.position : l \in LightCatalog}
\* What the light animation can leave in the point-light buffer: positions
\* move, everything else stays.
Animated(lights) ==
  {ls \in [DOMAIN lights -> [position : CatalogPositions, radius : {l.radius : l \in LightCatalog}]] :
     \A i \in DOMAIN lights : ls[i].radius = lights[i].radius}

\* clustered_shading.h line 387: the vector of directional lights, to which
\* no code adds.
m_directional_lights == <<>>

\* ClusteredShading::GeneratePointLights: the vector is resized to
\* m_point_lights_count and every record is drawn at random.
GeneratePointLights(count) == [0 .. (count - 1) -> LightCatalog]

\* Device memory no host code has allocated or cleared holds anything: each
\* of the three buffers shows some fill word.
Init ==
  /\ \E w \in UndefUint : clusters_flags = [c \in ClusterIds |-> w # 0]
  /\ \E lo, hi \in UndefUint : clusters = [c \in ClusterIds |-> FilledAABB(lo, hi)]
  /\ gdone = {}
  /\ grid_built = FALSE
  /\ dir_lights = <<>>
  /\ radiance_dir = <<>>
  /\ radiance_point = <<>>
  /\ unique_clusters_count \in UndefUint
  /\ unique_clusters = [i \in ClusterIds |-> 0]
  /\ num_groups = <<0, 0, 0>>
  /\ point_light_index_counter \in UndefUint
  /\ point_light_grid = [c \in ClusterIds |-> [offset |-> 0, count |-> 0]]
  /\ point_light_index_list = [s \in PoolSlots |-> 0]
  /\ point_lights = <<>>
  /\ stage = "idle"
  /\ frame = 0
  /\ depth_samples = {}
  /\ marked = {}
  /\ cpc = [c \in ClusterIds |-> "done"]
  /\ ci = [c \in ClusterIds |-> 0]
  /\ gpc = [g \in GroupIds |-> "idle"]
  /\ glocal = [g \in GroupIds |-> <<>>]
  /\ goffset = [g \in GroupIds |-> 0]
  /\ oob_write = FALSE
  /\ stages_run = <<>>
  /\ hpc = "init_app"
  /\ m_point_lights_count = MaxLights
  /\ m_point_lights = <<>>
  /\ m_animate_lights = FALSE
  /\ m_bloom_enabled = TRUE
  /\ uniforms = UniformDefaults
  /\ pending = {}
  /\ hazard = FALSE
  /\ last_cmd = "other"
  /\ mip_i = 0
  /\ shade_frag = NoFragment
  /\ shade_index = 0
  /\ lookup_window = <<WindowWidth, WindowHeight>>
  /\ lookup_index3D = <<0, 0, 0>>
  /\ UtilIdle

device_pipe_vars == <<clusters_flags, unique_clusters_count, unique_clusters, num_groups,
                      point_light_index_counter, point_light_grid, point_light_index_list,
                      stage, frame, depth_samples, marked, cpc, ci, gpc, glocal,
                      goffset, oob_write>>

\* ClusteredShading::init_app: lights generated, SSBOs created and filled,
\* shaders linked; the cluster generation shader is bound and its uniforms
\* set, and nothing is dispatched.
init_app ==
  /\ hpc = "init_app"
  /\ m_point_lights' \in GeneratePointLights(m_point_lights_count)
  /\ point_lights' = m_point_lights'
  /\ dir_lights' = m_directional_lights
  /\ uniforms' = UniformDefaults
  /\ last_cmd' = "other"
  /\ hpc' = "update"
  /\ UNCHANGED <<m_point_lights_count, m_animate_lights, m_bloom_enabled, pending,
                 hazard, mip_i, shade_frag, shade_index, stages_run>>
  /\ UNCHANGED device_pipe_vars
  /\ UNCHANGED grid_vars
  /\ UNCHANGED <<radiance_dir, radiance_point>>
  /\ UNCHANGED lookup_vars
  /\ UNCHANGED util_vars

\* ClusteredShading::update, m_animate_lights false: no GL command.
update_idle ==
  /\ hpc = "update"
  /\ ~m_animate_lights
  /\ hpc' = "depth_pass"
  /\ UNCHANGED <<m_point_lights_count, m_point_lights, m_animate_lights, m_bloom_enabled,
                 uniforms, pending, hazard, last_cmd, mip_i, shade_frag, shade_index,
                 stages_run, point_lights>>
  /\ UNCHANGED device_pipe_vars
  /\ UNCHANGED grid_vars
  /\ UNCHANGED shade_vars
  /\ UNCHANGED lookup_vars
  /\ UNCHANGED util_vars

\* update_dispatch with line 313 missing: no barrier follows the dispatch.
update_dispatch_NoBarrier ==
  /\ hpc = "update"
  /\ m_animate_lights
  /\ point_lights' \in Animated(point_lights)
  /\ pending' = pending \cup Written("point_lights")
  /\ last_cmd' = "dispatch"
  /\ hpc' = "depth_pass"
  /\ UNCHANGED <<m_point_lights_count, m_point_lights, m_animate_lights, m_bloom_enabled,
                 uniforms, hazard, mip_i, shade_frag, shade_index, stages_run>>
  /\ UNCHANGED device_pipe_vars
  /\ UNCHANGED grid_vars
  /\ UNCHANGED shade_vars
  /\ UNCHANGED lookup_vars
  /\ UNCHANGED util_vars

\* ClusteredShading::update line 312: glDispatchCompute of update_lights.comp,
\* which writes the point-light buffer.
update_dispatch ==
  /\ hpc = "update"
  /\ m_animate_lights
  /\ point_lights' \in Animated(point_lights)
  /\ pending' = pending \cup Written("point_lights")
  /\ last_cmd' = "dispatch"
  /\ hpc' = "update_barrier"
  /\ UNCHANGED <<m_point_lights_count, m_point_lights, m_animate_lights, m_bloom_enabled,
                 uniforms, hazard, mip_i, shade_frag, shade_index, stages_run>>
  /\ UNCHANGED device_pipe_vars
  /\ UNCHANGED grid_vars
  /\ UNCHANGED shade_vars
  /\ UNCHANGED lookup_vars
  /\ UNCHANGED util_vars

\* ClusteredShading::update line 313: glMemoryBarrier(GL_SHADER_STORAGE_BARRIER_BIT)
update_barrier ==
  /\ hpc = "update_barrier"
  /\ pending' = AfterBarrier(pending, {"ssbo"})
  /\ last_cmd' = "barrier"
  /\ hpc' = "depth_pass"
  /\ UNCHANGED <<m_point_lights_count, m_point_lights, m_animate_lights, m_bloom_enabled,
                 uniforms, hazard, mip_i, shade_frag, shade_index, stages_run, point_lights>>
  /\ UNCHANGED device_pipe_vars
  /\ UNCHANGED grid_vars
  /\ UNCHANGED shade_vars
  /\ UNCHANGED lookup_vars
  /\ UNCHANGED util_vars

\* ClusteredShading::renderDepthPass
renderDepthPass ==
  /\ hpc = "depth_pass"
  /\ last_cmd' = "other"
  /\ hpc' = "lighting"
  /\ UNCHANGED <<m_point_lights_count, m_point_lights, m_animate_lights, m_bloom_enabled,
                 uniforms, pending, hazard, mip_i, shade_frag, shade_index, stages_run,
                 point_lights>>
  /\ UNCHANGED device_pipe_vars
  /\ UNCHANGED grid_vars
  /\ UNCHANGED shade_vars
  /\ UNCHANGED lookup_vars
  /\ UNCHANGED util_vars

\* setUniform on a name the program does not declare is dropped.
SetUniforms(u) ==
  [u EXCEPT !.u_near_z = 1]

\* ClusteredShading::renderLighting: uniforms u_cam_pos, u_near_z, u_far_z,
\* u_slice_scale, u_slice_bias, u_debug_slices, u_model, u_normal_matrix and
\* u_mvp are set, then the scene is drawn with pbr_clustered.frag, whose main
\* locates the fragment's cluster and reads the light buffers.
renderLighting ==
  /\ hpc = "lighting"
  /\ uniforms' = SetUniforms(uniforms)
  /\ \E f \in Fragments :
       \E r \in FragmentMain(uniforms', f) :
         /\ shade_frag' = f
         /\ shade_index' = r.index
         /\ radiance_dir' = r.dir
         /\ radiance_point' = r.point
  /\ hazard' = (hazard \/ <<"point_lights", "ssbo">> \in pending)
  /\ stages_run' = Append(stages_run, "shade")
  /\ last_cmd' = "other"
  /\ hpc' = "skybox"
  /\ UNCHANGED <<m_point_lights_count, m_point_lights, m_animate_lights, m_bloom_enabled,
                 pending, mip_i, point_lights, dir_lights>>
  /\ UNCHANGED device_pipe_vars
  /\ UNCHANGED grid_vars
  /\ UNCHANGED lookup_vars
  /\ UNCHANGED util_vars

\* ClusteredShading::render lines 546-557: skybox, then the bloom branch.  The
\* fragment invocations of the lighting pass are over.
render_skybox ==
  /\ hpc = "skybox"
  /\ last_cmd' = "other"
  /\ mip_i' = 0
  /\ hpc' = IF m_bloom_enabled
            THEN (IF 0 < MipLevels - 1 THEN "bloom_down" ELSE "bloom_up_init")
            ELSE "tonemap"
  /\ shade_frag' = NoFragment
  /\ shade_index' = 0
  /\ radiance_dir' = <<>>
  /\ radiance_point' = <<>>
  /\ UNCHANGED <<m_point_lights_count, m_point_lights, m_animate_lights, m_bloom_enabled,
                 uniforms, pending, hazard, stages_run, point_lights, dir_lights>>
  /\ UNCHANGED device_pipe_vars
  /\ UNCHANGED grid_vars
  /\ UNCHANGED lookup_vars
  /\ UNCHANGED util_vars

\* ClusteredShading::render line 573: downscale dispatch, reads the render
\* target as a texture and writes mip i + 1 as an image.
bloom_downscale_dispatch ==
  /\ hpc = "bloom_down"
  /\ hazard' = (hazard \/ <<"tmo_rt", "texture">> \in pending)
  /\ pending' = pending \cup Written("tmo_rt")
  /\ last_cmd' = "dispatch"
  /\ hpc' = "bloom_down_barrier"
  /\ UNCHANGED <<m_point_lights_count, m_point_lights, m_animate_lights, m_bloom_enabled,
                 uniforms, mip_i, shade_frag, shade_index, stages_run, point_lights>>
  /\ UNCHANGED device_pipe_vars
  /\ UNCHANGED grid_vars
  /\ UNCHANGED shade_vars
  /\ UNCHANGED lookup_vars
  /\ UNCHANGED util_vars

\* ClusteredShading::render line 577: glMemoryBarrier(GL_SHADER_IMAGE_ACCESS_
\* BARRIER_BIT | GL_TEXTURE_FETCH_BARRIER_BIT), then ++i and the loop test.
bloom_downscale_barrier ==
  /\ hpc = "bloom_down_barrier"
  /\ pending' = AfterBarrier(pending, {"image", "texture"})
  /\ last_cmd' = "barrier"
  /\ mip_i' = mip_i + 1
  /\ hpc' = IF mip_i + 1 < MipLevels - 1 THEN "bloom_down" ELSE "bloom_up_init"
  /\ UNCHANGED <<m_point_lights_count, m_point_lights, m_animate_lights, m_bloom_enabled,
                 uniforms, hazard, shade_frag, shade_index, stages_run, point_lights>>
  /\ UNCHANGED device_pipe_vars
  /\ UNCHANGED grid_vars
  /\ UNCHANGED shade_vars
  /\ UNCHANGED lookup_vars
  /\ UNCHANGED util_vars

\* ClusteredShading::render lines 581-587: upscale shader bound, i = m_mip_levels - 1.
bloom_upscale_init ==
  /\ hpc = "bloom_up_init"
  /\ last_cmd' = "other"
  /\ mip_i' = MipLevels - 1
  /\ hpc' = IF MipLevels - 1 >= 1 THEN "bloom_up" ELSE "tonemap"
  /\ UNCHANGED <<m_point_lights_count, m_point_lights, m_animate_lights, m_bloom_enabled,
                 uniforms, pending, hazard, shade_frag, shade_index, stages_run,
                 point_lights>>
  /\ UNCHANGED device_pipe_vars
  /\ UNCHANGED grid_vars
  /\ UNCHANGED shade_vars
  /\ UNCHANGED lookup_vars
  /\ UNCHANGED util_vars

\* ClusteredShading::render line 597: upscale dispatch, reads the render
\* target as a texture and reads and writes mip i - 1 as an image.
bloom_upscale_dispatch ==
  /\ hpc = "bloom_up"
  /\ hazard' = (hazard \/ <<"tmo_rt", "texture">> \in pending
                       \/ <<"tmo_rt", "image">> \in pending)
  /\ pending' = pending \cup Written("tmo_rt")
  /\ last_cmd' = "dispatch"
  /\ hpc' = "bloom_up_barrier"
  /\ UNCHANGED <<m_point_lights_count, m_point_lights, m_animate_lights, m_bloom_enabled,
                 uniforms, mip_i, shade_frag, shade_index, stages_run, point_lights>>
  /\ UNCHANGED device_pipe_vars
  /\ UNCHANGED grid_vars
  /\ UNCHANGED shade_vars
  /\ UNCHANGED lookup_vars
  /\ UNCHANGED util_vars

\* ClusteredShading::render line 599: the barrier, then --i and the loop test.
bloom_upscale_barrier ==
  /\ hpc = "bloom_up_barrier"
  /\ pending' = AfterBarrier(pending, {"image", "texture"})
  /\ last_cmd' = "barrier"
  /\ mip_i' = mip_i - 1
  /\ hpc' = IF mip_i - 1 >= 1 THEN "bloom_up" ELSE "tonemap"
  /\ UNCHANGED <<m_point_lights_count, m_point_lights, m_animate_lights, m_bloom_enabled,
                 uniforms, hazard, shade_frag, shade_index, stages_run, point_lights>>
  /\ UNCHANGED device_pipe_vars
  /\ UNCHANGED grid_vars
  /\ UNCHANGED shade_vars
  /\ UNCHANGED lookup_vars
  /\ UNCHANGED util_vars

\* ClusteredShading::render line 604: tone mapping samples the render target.
tonemap ==
  /\ hpc = "tonemap"
  /\ hazard' = (hazard \/ <<"tmo_rt", "texture">> \in pending)
  /\ last_cmd' = "other"
  /\ mip_i' = 0
  /\ hpc' = "gui"
  /\ UNCHANGED <<m_point_lights_count, m_point_lights, m_animate_lights, m_bloom_enabled,
                 uniforms, pending, shade_frag, shade_index, stages_run, point_lights>>
  /\ UNCHANGED device_pipe_vars
  /\ UNCHANGED grid_vars
  /\ UNCHANGED shade_vars
  /\ UNCHANGED lookup_vars
  /\ UNCHANGED util_vars

\* ClusteredShading::UpdateLightsSSBOs: the buffers are re-created from the
\* host vectors.
UpdateLightsSSBOs(host_lights) == host_lights

\* render_gui whose "Generate Lights" regenerates the host vectors and does
\* not call UpdateLightsSSBOs.
render_gui_NoUpload ==
  /\ hpc = "gui"
  /\ m_animate_lights' \in BOOLEAN
  /\ m_bloom_enabled' \in BOOLEAN
  /\ m_point_lights_count' \in 0 .. MaxLights
  /\ \E generate \in BOOLEAN :
       IF generate
       THEN /\ m_point_lights' \in GeneratePointLights(m_point_lights_count')
            /\ UNCHANGED <<point_lights, dir_lights>>
       ELSE UNCHANGED <<m_point_lights, point_lights, dir_lights>>
  /\ last_cmd' = "other"
  /\ stages_run' = <<>>
  /\ hpc' = "update"
  /\ UNCHANGED <<uniforms, pending, hazard, mip_i, shade_frag, shade_index>>
  /\ UNCHANGED device_pipe_vars
  /\ UNCHANGED grid_vars
  /\ UNCHANGED <<radiance_dir, radiance_point>>
  /\ UNCHANGED lookup_vars
  /\ UNCHANGED util_vars

\* ClusteredShading::render_gui: the widgets may change the switches and the
\* light count; "Generate Lights" regenerates and uploads.  The frame ends.
render_gui ==
  /\ hpc = "gui"
  /\ m_animate_lights' \in BOOLEAN
  /\ m_bloom_enabled' \in BOOLEAN
  /\ m_point_lights_count' \in 0 .. MaxLights
  /\ \E generate \in BOOLEAN :
       IF generate
       THEN /\ m_point_lights' \in GeneratePointLights(m_point_lights_count')
            /\ point_lights' = UpdateLightsSSBOs(m_point_lights')
            /\ dir_lights' = UpdateLightsSSBOs(m_directional_lights)
       ELSE UNCHANGED <<m_point_lights, point_lights, dir_lights>>
  /\ last_cmd' = "other"
  /\ stages_run' = <<>>
  /\ hpc' = "update"
  /\ UNCHANGED <<uniforms, pending, hazard, mip_i, shade_frag, shade_index>>
  /\ UNCHANGED device_pipe_vars
  /\ UNCHANGED grid_vars
  /\ UNCHANGED <<radiance_dir, radiance_point>>
  /\ UNCHANGED lookup_vars
  /\ UNCHANGED util_vars

Next ==
  \/ init_app
  \/ update_idle
  \/ update_dispatch
  \/ update_barrier
  \/ renderDepthPass
  \/ renderLighting
  \/ render_skybox
  \/ bloom_downscale_dispatch
  \/ bloom_downscale_barrier
  \/ bloom_upscale_init
  \/ bloom_upscale_dispatch
  \/ bloom_upscale_barrier
  \/ tonemap
  \/ render_gui

Spec == Init /\ [][Next]_vars

\* ================================================================= claims
ActiveClusters == {c \in ClusterIds : clusters_flags[c]}
CompactedList == {unique_clusters[i] : i \in (0 .. (unique_clusters_count - 1)) \cap ClusterIds}
FrameOver == stage \in {"idle", "build"} /\ frame > 0
Compacted == stage \in {"size", "sized", "cull", "shade"} \/ FrameOver
Sized == stage \in {"sized", "cull", "shade"} \/ FrameOver
CullDone ==
  \/ stage = "cull" /\ \A g \in GroupIds : gpc[g] \in {"idle", "done"}
  \/ stage = "shade"
  \/ FrameOver

RECURSIVE SumCounts(_)
SumCounts(S) ==
  IF S = {} THEN 0
  ELSE LET c == CHOOSE x \in S : TRUE
       IN  point_light_grid[c].count + SumCounts(S \ {c})

GridRange(c) ==
  point_light_grid[c].offset .. (point_light_grid[c].offset + point_light_grid[c].count - 1)
GroupRange(g) == goffset[g] .. (goffset[g] + Len(glocal[g]) - 1)
Occurrences(c, i) ==
  Cardinality({s \in GridRange(c) \cap PoolSlots : point_light_index_list[s] = i})

C2_OffsetCountWithinCapacity ==
  CullDone => \A c \in ActiveClusters :
                point_light_grid[c].offset + point_light_grid[c].count <= PoolCapacity

\* C2 (amended): at the end of the Light Culler every active cluster's grid
\* entry has offset + count <= the final allocation counter, the counter is
\* the sum of the active clusters' counts, and the entries stay within the
\* pool capacity exactly when that sum does.
C2_OffsetCountWithinAllocation ==
  CullDone =>
    /\ \A c \in ActiveClusters :
         point_light_grid[c].offset + point_light_grid[c].count <= point_light_index_counter
    /\ point_light_index_counter = SumCounts(ActiveClusters)
    /\ (point_light_index_counter <= PoolCapacity) <=>
         (\A c \in ActiveClusters :
            point_light_grid[c].offset + point_light_grid[c].count <= PoolCapacity)

\* C2 witness: two active clusters with lights, allocated in the order
\* opposite to the list, the pool not overflowed.
C2_Witness ==
  /\ stage = "cull"
  /\ \A g \in GroupIds : gpc[g] \in {"idle", "done"}
  /\ unique_clusters_count = 2
  /\ Len(glocal[0]) > 0 /\ Len(glocal[1]) > 0
  /\ goffset[1] < goffset[0]
  /\ point_light_index_counter <= PoolCapacity

\* The index of light i occurs in active cluster c's range exactly once when
\* the light overlaps the cluster's AABB, and not at all otherwise.
LightsMatchOverlap ==
  \A c \in ActiveClusters : \A i \in DOMAIN point_lights :
    Occurrences(c, i) = IF SphereAABBOverlap(point_lights[i], ClusterAABB(c)) THEN 1 ELSE 0

C7_RangesDisjoint ==
  /\ stage = "cull" =>
       \A g1, g2 \in GroupIds :
         (g1 # g2 /\ gpc[g1] \in {"write", "done"} /\ gpc[g2] \in {"write", "done"})
           => GroupRange(g1) \cap GroupRange(g2) = {}
  /\ CullDone =>
       \A c1, c2 \in ActiveClusters :
         c1 # c2 => GridRange(c1) \cap GridRange(c2) = {}

\* C7 witness: both groups have written non-empty ranges, the second group
\* having reserved first.
C7_Witness ==
  /\ stage = "cull"
  /\ gpc[0] = "done" /\ gpc[1] = "done"
  /\ Len(glocal[0]) = 2 /\ Len(glocal[1]) = 2
  /\ goffset[1] < goffset[0]

\* C9: after the sizer num_groups is (unique_clusters_count, 1, 1), the
\* culler runs one work group per entry of the compacted list, and the sizer
\* changes neither the count nor the list.
C9_SizerSetsNumGroups ==
  /\ [](stage \in {"sized", "cull"} => num_groups = <<unique_clusters_count, 1, 1>>)
  /\ [](stage = "cull" =>
          {g \in GroupIds : gpc[g] # "idle"} = 0 .. (unique_clusters_count - 1))
  /\ [][stage = "size" => UNCHANGED <<unique_clusters_count, unique_clusters>>]_vars

\* C9 witness: the culler dispatched with exactly two groups for two entries.
C9_Witness ==
  /\ stage = "cull"
  /\ unique_clusters_count = 2
  /\ num_groups = <<2, 1, 1>>
  /\ gpc[0] = "test" /\ gpc[1] = "test" /\ gpc[2] = "idle"

C3_ZeroBeforeFirstStage ==
  hpc = "lighting" =>
    /\ \A c \in ClusterIds : ~clusters_flags[c]
    /\ unique_clusters_count = 0
    /\ point_light_index_counter = 0

\* C4: in every frame the stages run in the order marker, compactor, sizer,
\* culler, shading, each once; shading never runs without the four before it.
C4_StagesInOrder ==
  "shade" \in Range(stages_run) =>
    stages_run = <<"mark", "compact", "size", "cull", "shade">>

\* C5: every compute dispatch is followed at once by a memory barrier, and no
\* later command reads a resource while a shader write to it is pending.
C5_DispatchThenBarrier ==
  /\ [](~hazard)
  /\ [](pending # {} => hpc \in {"update_barrier", "bloom_down_barrier", "bloom_up_barrier"})
  /\ [][last_cmd = "dispatch" => last_cmd' = "barrier"]_vars

\* C5 witness: the lighting pass has read the point lights the animation
\* dispatch of the same frame rewrote.
C5_Witness ==
  /\ hpc = "skybox"
  /\ m_animate_lights
  /\ point_lights # m_point_lights
  /\ pending = {}

\* C8: the cluster index the shading stage computes with the uniforms the
\* host uploads equals the index the Active Cluster Marker computes for the
\* same screen position and depth.
C8_ShadingIndexEqualsMarkerIndex ==
  hpc = "skybox" => shade_index = MarkerIndex(shade_frag)

\* The cells (x, y, z) of the grid.
Cells == (0 .. (GridX - 1)) \X (0 .. (GridY - 1)) \X (0 .. (GridZ - 1))

\* C11: computeClusterIndex1D returns x + Gx*(y + Gy*z); over the cells of
\* the grid it is one-to-one and onto 0 .. Gx*Gy*Gz-1; the flag the marker
\* sets for a fragment and the index shading computes are that index of the
\* fragment's cell.
C11_Index1DBijection ==
  /\ \A c \in Cells :
       computeClusterIndex1D(m_grid_size, c) = c[1] + GridX * (c[2] + GridY * c[3])
  /\ \A a, b \in Cells :
       computeClusterIndex1D(m_grid_size, a) = computeClusterIndex1D(m_grid_size, b) => a = b
  /\ {computeClusterIndex1D(m_grid_size, c) : c \in Cells} = ClusterIds
  /\ \A f \in marked : \A c \in computeClusterIndex3D(GridParams, f) :
       c \in Cells /\ computeClusterIndex1D(m_grid_size, c) \in ActiveClusters
  /\ (stage = "shade" /\ shade_frag # NoFragment) =>
       \E c \in computeClusterIndex3D(uniforms, shade_frag) \cap Cells :
         shade_index = computeClusterIndex1D(uniforms.u_grid_dim, c)

\* C11 witness: the marker has flagged the first and the last cluster of the
\* grid, and nothing else.
C11_Witness ==
  /\ stage = "mark"
  /\ marked = depth_samples
  /\ ActiveClusters = {0, clusters_count - 1}
  /\ clusters_count > 1

\* The entries index_list[offset .. offset+count-1] of cluster c's grid
\* entry, as far as they lie in the pool.
RangeEntries(c) ==
  [i \in {k \in 1 .. point_light_grid[c].count :
            point_light_grid[c].offset + k - 1 \in PoolSlots} |->
     point_light_index_list[point_light_grid[c].offset + i - 1]]

\* C12: for every fragment the lighting pass shades, the point lights
\* evaluated are exactly the entries index_list[offset .. offset+count-1] of
\* the grid entry of the cluster the fragment's screen position and depth map
\* to, each once, and no other.
C12_ShadingReadsClusterRange ==
  hpc = "skybox" =>
    /\ shade_index = MarkerIndex(shade_frag)
    /\ Len(radiance_point) = point_light_grid[MarkerIndex(shade_frag)].count
    /\ \A i \in DOMAIN RangeEntries(MarkerIndex(shade_frag)) :
         radiance_point[i] = RangeEntries(MarkerIndex(shade_frag))[i]

\* C13: from the end of the Light Culler to the end of the frame's shading
\* pass no step writes the light grid entries, the light index pool or the
\* allocation counter; the shading invocations only read them.
C13_ReadOnlyAfterCuller ==
  [][((stage = "cull" /\ \A g \in GroupIds : gpc[g] \in {"idle", "done"})
        \/ stage = "shade")
      => UNCHANGED <<point_light_grid, point_light_index_list,
                     point_light_index_counter>>]_vars

\* C13 witness: a shading invocation has walked a range of two indices the
\* culler of this frame allocated.
C13_Witness ==
  /\ stage = "shade"
  /\ shade_frag # NoFragment
  /\ Len(radiance_point) = 2
  /\ point_light_index_counter >= 2
  /\ point_light_grid[shade_index].count = 2

\* C14: once init_app has returned, and so before any frame culls or shades,
\* the Cluster Grid Builder has run over all Gx*Gy*Gz clusters: a run has
\* completed and every entry of the ClusterAABB buffer holds the AABB of its
\* cluster.
C14_GridBuiltAtInit ==
  hpc # "init_app" =>
    /\ grid_built
    /\ \A c \in ClusterIds : clusters[c] = ClusterAABB(c)

\* C15: when the lighting pass has run in a frame, every parameter the
\* Cluster Lookup reads holds the value of the configuration: near plane,
\* grid dimensions, screen-space cluster size and depth-slice scale; none is
\* left at the default of an unset uniform.
C15_LookupUniformsSupplied ==
  hpc = "skybox" =>
    /\ uniforms.u_near_z = GridParams.u_near_z
    /\ uniforms.u_grid_dim = GridParams.u_grid_dim
    /\ uniforms.u_cluster_size_ss = GridParams.u_cluster_size_ss
    /\ uniforms.u_log_grid_dim_y = GridParams.u_log_grid_dim_y

\* C16: whatever cluster a shaded fragment falls in and whatever the light
\* grid holds, the invocation accumulates every light of the directional-light
\* buffer exactly once.
C16_DirectionalLightsAllOnce ==
  (stage = "shade" /\ shade_frag # NoFragment) =>
    /\ Len(radiance_dir) = Cardinality(DOMAIN dir_lights)
    /\ \A i \in DOMAIN dir_lights :
         Cardinality({k \in DOMAIN radiance_dir : radiance_dir[k] = dir_lights[i]}) = 1

\* C16 witness: a fragment shaded in a frame whose culler overflowed the
\* pool, in a cluster other than the first, with the directional lights
\* accumulated.
C16_Witness ==
  /\ stage = "shade"
  /\ shade_frag # NoFragment
  /\ shade_index > 0
  /\ oob_write
  /\ Len(radiance_dir) = NumDirLights
  /\ NumDirLights > 1

RECURSIVE OverlappingLights(_, _)
OverlappingLights(c, n) ==
  IF n = 0 THEN <<>>
  ELSE IF SphereAABBOverlap(point_lights[n - 1], ClusterAABB(c))
       THEN Append(OverlappingLights(c, n - 1), n - 1)
       ELSE OverlappingLights(c, n - 1)

C20_MinAtMostMax ==
  hpc # "init_app" =>
    \A c \in ClusterIds : \A k \in 1 .. 3 : clusters[c].min[k] <= clusters[c].max[k]

\* ------------------------------------------------ termination of the stages
\* One step of a dispatched kernel of the compactor, the sizer or the culler,
\* or the barrier that ends its dispatch.
StageStep ==
  \/ \E c \in ClusterIds : CompactAtomicAdd(c)
  \/ \E c \in ClusterIds : CompactStore(c)
  \/ DispatchSizer
  \/ UpdateCullLightsIndirectArgs
  \/ DispatchCuller
  \/ \E g \in GroupIds : CullReserve(g)
  \/ \E g \in GroupIds : CullWrite(g)
  \/ DispatchShading

\* The device schedules every dispatched work item: a kernel step that can
\* be taken is eventually taken.
SpecPipeFair == SpecPipe /\ WF_vars(StageStep)

\* The steps work item c of the compactor and work group g of the culler
\* still have to take.
CompactorItemStep(c) == CompactAtomicAdd(c) \/ CompactStore(c)
CullerGroupStep(g) == CullReserve(g) \/ CullWrite(g)

\* C21: under fair scheduling the compactor, the sizer and the culler each
\* run to their end, and a dispatched work item that has not finished can
\* always take its next step, whatever the other work items have done: none
\* waits on another, and no state of a running stage is a deadlock.
C21_StagesTerminate ==
  /\ (stage = "compact") ~> (stage = "size")
  /\ (stage = "size") ~> (stage = "sized")
  /\ (stage = "cull") ~> (stage = "shade")
  /\ [](\A c \in ClusterIds :
          (stage = "compact" /\ cpc[c] # "done") => ENABLED CompactorItemStep(c))
  /\ [](\A g \in GroupIds :
          (stage = "cull" /\ gpc[g] \in {"test", "write"}) => ENABLED CullerGroupStep(g))
  /\ [](stage \in {"compact", "size", "sized", "cull"} => ENABLED StageStep)

\* C21 witness: the three stages of a frame have ended, after two compactor
\* work items appended and two culler work groups reserved ranges.
C21_Witness ==
  /\ stage = "shade"
  /\ stages_run = <<"mark", "compact", "size", "cull">>
  /\ unique_clusters_count = 2
  /\ num_groups = <<2, 1, 1>>
  /\ point_light_index_counter > 0

\* Work group g of the culler stores its grid entry in this step.
WritesEntry(g) == stage = "cull" /\ gpc[g] = "write" /\ gpc'[g] = "done"

\* C22: in a frame a step changes the light grid only as the store of one
\* culler work group, which writes the entry of its own cluster, the g-th of
\* the active-cluster list, and no other entry; the clusters of two work
\* groups differ and are active; and when the culler is done every active
\* cluster's entry has been stored by exactly one work group.
C22_GridEntryWrittenOnce ==
  /\ [][\A g \in GroupIds :
          WritesEntry(g) =>
            /\ g \in ClusterIds
            /\ point_light_grid'[unique_clusters[g]] =
                 [offset |-> goffset[g], count |-> Len(glocal[g])]
            /\ \A c \in ClusterIds \ {unique_clusters[g]} :
                 point_light_grid'[c] = point_light_grid[c]]_vars
  /\ [][(\A g \in GroupIds : ~WritesEntry(g)) => UNCHANGED point_light_grid]_vars
  /\ [][Cardinality({g \in GroupIds : WritesEntry(g)}) <= 1]_vars
  /\ [](stage = "cull" =>
          \A g1, g2 \in GroupIds :
            (gpc[g1] # "idle" /\ gpc[g2] # "idle" /\ g1 # g2)
              => /\ unique_clusters[g1] # unique_clusters[g2]
                 /\ unique_clusters[g1] \in ActiveClusters)
  /\ []((stage = "cull" /\ \A g \in GroupIds : gpc[g] \in {"idle", "done"}) =>
          \A c \in ActiveClusters :
            Cardinality({g \in ClusterIds : gpc[g] = "done" /\ unique_clusters[g] = c}) = 1)

\* C22 witness: two work groups have stored the entries of two clusters
\* listed in descending order, with different counts.
C22_Witness ==
  /\ stage = "cull"
  /\ gpc[0] = "done" /\ gpc[1] = "done"
  /\ unique_clusters[0] > unique_clusters[1]
  /\ point_light_grid[unique_clusters[0]].count # point_light_grid[unique_clusters[1]].count
  /\ point_light_grid[unique_clusters[0]].offset = goffset[0]

\* The clusters the fragments of S map to.
ClustersOf(S) == {MarkerIndex(f) : f \in S}

\* C23: in whatever order the marker's work items run, the flags set are
\* those of the clusters of the pixels marked so far, and once every pixel's
\* work item has run, and for the rest of the frame, a cluster's flag is set
\* if and only if a sample of the frame's depth buffer maps to the cluster.
C23_MaskIsClustersOfSamples ==
  /\ stage = "mark" => ActiveClusters = ClustersOf(marked)
  /\ ((stage = "mark" /\ marked = depth_samples)
        \/ stage \in {"compact", "size", "sized", "cull", "shade"})
       => \A c \in ClusterIds :
            clusters_flags[c] <=> (\E f \in depth_samples : MarkerIndex(f) = c)

\* C23 witness: in the second frame two pixels of one cluster have both
\* stored the same flag, and a cluster flagged in no pixel stays clear.
C23_Witness ==
  /\ stage = "mark"
  /\ frame = 2
  /\ marked = depth_samples
  /\ Cardinality(depth_samples) = 2
  /\ Cardinality(ActiveClusters) = 1

\* The compactor work items that have taken an index from the counter.
Appended == {c \in ClusterIds : clusters_flags[c] /\ cpc[c] \in {"store", "done"}}

SampleOf(c) == CHOOSE f \in Fragments : MarkerIndex(f) = c

\* The marker has run on some depth buffer, the counter is reset and the
\* grid is built; no compactor invocation exists yet.
GroupsInit ==
  /\ \E A \in SUBSET ClusterIds :
       /\ clusters_flags = [c \in ClusterIds |-> c \in A]
       /\ depth_samples = {SampleOf(c) : c \in A}
       /\ marked = {SampleOf(c) : c \in A}
  /\ unique_clusters_count = 0
  /\ unique_clusters = [i \in ClusterIds |-> 0]
  /\ num_groups = <<0, 0, 0>>
  /\ point_light_index_counter = 0
  /\ point_light_grid = [c \in ClusterIds |-> [offset |-> 0, count |-> 0]]
  /\ point_light_index_list = [s \in PoolSlots |-> 0]
  /\ point_lights = <<>>
  /\ stage = "mark"
  /\ frame = 1
  /\ cpc = [w \in Invocations |-> "done"]
  /\ ci = [w \in Invocations |-> 0]
  /\ gpc = [g \in GroupIds |-> "idle"]
  /\ glocal = [g \in GroupIds |-> <<>>]
  /\ goffset = [g \in GroupIds |-> 0]
  /\ oob_write = FALSE
  /\ stages_run = <<>>
  /\ clusters = [c \in ClusterIds |-> ClusterAABB(c)]
  /\ gdone = {}
  /\ grid_built = TRUE
  /\ dir_lights = <<>>
  /\ radiance_dir = <<>>
  /\ radiance_point = <<>>
  /\ lookup_window = <<WindowWidth, WindowHeight>>
  /\ lookup_index3D = <<0, 0, 0>>
  /\ UtilIdle
  /\ HostIdle

\* find_unique_clusters.comp lines 19-20 in every invocation of the
\* dispatch: cluster_id = gl_GlobalInvocationID.x, then the test of
\* clusters_flags[cluster_id], with no comparison of cluster_id against the
\* cluster count.  A read past the end of the flag array yields anything.
DispatchCompactorGroups ==
  /\ stage = "mark"
  /\ marked = depth_samples
  /\ stage' = "compact"
  /\ cpc' \in {p \in [Invocations -> {"add", "done"}] :
                 \A w \in Invocations \cap ClusterIds :
                   p[w] = IF clusters_flags[w] THEN "add" ELSE "done"}
  /\ stages_run' = Append(stages_run, "mark")
  /\ UNCHANGED <<clusters_flags, unique_clusters_count, unique_clusters, num_groups,
                 point_light_index_counter, point_light_grid, point_light_index_list,
                 point_lights, frame, depth_samples, marked, ci, gpc, glocal,
                 goffset, oob_write>>
  /\ UNCHANGED host_vars
  /\ UNCHANGED grid_vars
  /\ UNCHANGED shade_vars
  /\ UNCHANGED lookup_vars
  /\ UNCHANGED util_vars

GroupsNext ==
  \/ DispatchCompactorGroups
  \/ \E w \in Invocations : CompactAtomicAdd(w)
  \/ \E w \in Invocations : CompactStore(w)

SpecGroups == GroupsInit /\ [][GroupsNext]_vars

\* C25: every compactor invocation that reads its flag or appends its id has
\* cluster_id below the cluster count, and every id in the active list is a
\* cluster's id.
C25_CompactorIdsInRange ==
  stage = "compact" =>
    /\ \A w \in DOMAIN cpc : w < clusters_count
    /\ \A w \in DOMAIN cpc : cpc[w] \in {"add", "store"} => w < clusters_count
    /\ \A i \in (0 .. (unique_clusters_count - 1)) \cap ClusterIds :
         unique_clusters[i] < clusters_count

\* ------------------------------------------- the Cluster Lookup on its own
WindowSizes == (1 .. MaxWindow) \X (1 .. MaxWindow)
GridSizes == (1 .. GridX) \X (1 .. GridY) \X (1 .. GridZ)

\* The lookup's parameters for a W x H viewport and grid G: the cluster size
\* vec2(W, H) / vec2(G) of init_app line 229 held in the uvec2
\* u_cluster_size_ss, so truncated; near = 1; the slice scale Gz / ln(far/near).
LookupParams(window, G) ==
  [u_near_z |-> 1, u_grid_dim |-> G,
   u_cluster_size_ss |-> <<window[1] \div G[1], window[2] \div G[2]>>,
   u_log_grid_dim_y |-> G[3]]

\* The fragments of a viewport: pixel inside W x H, depth step from the near
\* plane (0) to the far plane (DepthSteps), both included.
ViewportFragments(window) ==
  (0 .. (window[1] - 1)) \X (0 .. (window[2] - 1)) \X (0 .. DepthSteps)

\* Some window size and grid size; the lookup has not been applied.
LookupInit ==
  /\ \E window \in WindowSizes : lookup_window = window
  /\ \E G \in GridSizes : uniforms = LookupParams(lookup_window, G)
  /\ lookup_index3D = <<0, 0, 0>>
  /\ UtilIdle
  /\ shade_frag = NoFragment
  /\ shade_index = 0
  /\ clusters_flags = [c \in ClusterIds |-> FALSE]
  /\ unique_clusters_count = 0
  /\ unique_clusters = [i \in ClusterIds |-> 0]
  /\ num_groups = <<0, 0, 0>>
  /\ point_light_index_counter = 0
  /\ point_light_grid = [c \in ClusterIds |-> [offset |-> 0, count |-> 0]]
  /\ point_light_index_list = [s \in PoolSlots |-> 0]
  /\ point_lights = <<>>
  /\ stage = "shade"
  /\ frame = 1
  /\ depth_samples = {}
  /\ marked = {}
  /\ cpc = [c \in ClusterIds |-> "done"]
  /\ ci = [c \in ClusterIds |-> 0]
  /\ gpc = [g \in GroupIds |-> "idle"]
  /\ glocal = [g \in GroupIds |-> <<>>]
  /\ goffset = [g \in GroupIds |-> 0]
  /\ oob_write = FALSE
  /\ stages_run = <<>>
  /\ clusters = [c \in ClusterIds |-> ClusterAABB(c)]
  /\ gdone = {}
  /\ grid_built = TRUE
  /\ dir_lights = <<>>
  /\ radiance_dir = <<>>
  /\ radiance_point = <<>>
  /\ hpc = "off"
  /\ m_point_lights_count = 0
  /\ m_point_lights = <<>>
  /\ m_animate_lights = FALSE
  /\ m_bloom_enabled = TRUE
  /\ pending = {}
  /\ hazard = FALSE
  /\ last_cmd = "other"
  /\ mip_i = 0

\* pbr_clustered.frag lines 73-74 for a fragment of the viewport:
\* computeClusterIndex3D(gl_FragCoord.xy, in_view_pos.z), then
\* computeClusterIndex1D.
LocateCluster(f) ==
  /\ f \in ViewportFragments(lookup_window)
  /\ shade_frag' = f
  /\ \E cluster_index3D \in computeClusterIndex3D(uniforms, f) :
       /\ lookup_index3D' = cluster_index3D
       /\ shade_index' = computeClusterIndex1D(uniforms.u_grid_dim, cluster_index3D)
  /\ UNCHANGED <<pipe_vars, host_ctl_vars, grid_vars, shade_vars, lookup_window>>
  /\ UNCHANGED util_vars

LookupNext ==
  \E f \in (0 .. (MaxWindow - 1)) \X (0 .. (MaxWindow - 1)) \X (0 .. DepthSteps) :
    LocateCluster(f)

SpecLookup == LookupInit /\ [][LookupNext]_vars

\* C26: for a fragment inside the viewport with depth from near to far, the
\* cell computeClusterIndex3D yields has x < Gx, y < Gy and z < Gz, and its
\* flat index is below Gx*Gy*Gz, whatever the window and the grid size.
C26_LookupIndexInGrid ==
  shade_frag # NoFragment =>
    /\ lookup_index3D[1] < uniforms.u_grid_dim[1]
    /\ lookup_index3D[2] < uniforms.u_grid_dim[2]
    /\ lookup_index3D[3] < uniforms.u_grid_dim[3]
    /\ shade_index < uniforms.u_grid_dim[1] * uniforms.u_grid_dim[2] * uniforms.u_grid_dim[3]

\* C27: the cluster whose grid entry the lighting pass has read for a
\* fragment is a cluster of the grid that the marker flagged and the Light
\* Culler processed earlier in the same frame.
C27_ShadedClusterCulledThisFrame ==
  hpc = "skybox" =>
    /\ shade_index \in ClusterIds
    /\ "mark" \in Range(stages_run)
    /\ "cull" \in Range(stages_run)
    /\ clusters_flags[shade_index]
    /\ shade_index \in CompactedList

\* C28: when update() runs, the light count that sizes the animation
\* dispatch is the number of records of the host light vector and of the
\* device point-light buffer.
C28_CountMatchesLightRecords ==
  hpc = "update" =>
    /\ m_point_lights_count = Cardinality(DOMAIN m_point_lights)
    /\ m_point_lights_count = Cardinality(DOMAIN point_lights)

\* --------------------------------------------------- Util::LoadShaderIncludes
\* Calls of LoadShaderIncludes the stack has room for: more than any set of
\* include files without a cycle needs (one call per file of the longest
\* chain, and the last call that finds no include).  The function has no
\* limit of its own: a call chain that gets this deep goes on until the
\* process runs out of stack or memory, and the outermost call never returns.
MaxRecursion == Cardinality(FileNames) + 2

IncludeAlphabet == {TextLine("t"), BareInclude} \cup {IncludeLine(f) : f \in FileNames}

\* The rest of the state while only Util is observed.
PipelineOff ==
  /\ clusters_flags = [c \in ClusterIds |-> FALSE]
  /\ unique_clusters_count = 0
  /\ unique_clusters = [i \in ClusterIds |-> 0]
  /\ num_groups = <<0, 0, 0>>
  /\ point_light_index_counter = 0
  /\ point_light_grid = [c \in ClusterIds |-> [offset |-> 0, count |-> 0]]
  /\ point_light_index_list = [s \in PoolSlots |-> 0]
  /\ point_lights = <<>>
  /\ stage = "idle"
  /\ frame = 0
  /\ depth_samples = {}
  /\ marked = {}
  /\ cpc = [c \in ClusterIds |-> "done"]
  /\ ci = [c \in ClusterIds |-> 0]
  /\ gpc = [g \in GroupIds |-> "idle"]
  /\ glocal = [g \in GroupIds |-> <<>>]
  /\ goffset = [g \in GroupIds |-> 0]
  /\ oob_write = FALSE
  /\ stages_run = <<>>
  /\ clusters = [c \in ClusterIds |-> FilledAABB(0, 0)]
  /\ gdone = {}
  /\ grid_built = FALSE
  /\ dir_lights = <<>>
  /\ radiance_dir = <<>>
  /\ radiance_point = <<>>
  /\ lookup_window = <<WindowWidth, WindowHeight>>
  /\ lookup_index3D = <<0, 0, 0>>
  /\ HostIdle

\* LoadShaderIncludes is called on some shader source, in a directory
\* holding some files.
IncludesInit ==
  /\ fs_files \in [FileNames ->
                     {File(lines) : lines \in SeqsUpTo(IncludeAlphabet, MaxIncludeLines)}
                       \cup {NoFile}]
  /\ shader_code \in SeqsUpTo(IncludeAlphabet, MaxIncludeLines)
  /\ lsi_depth = 1
  /\ util_pc = "call"
  /\ filetext = <<>>
  /\ PipelineOff

\* Util::LoadShaderIncludes, one call: the loop over the lines, then the
\* call of itself on the new text if a line was an include, else the return.
\* The callers return what their callee returns.
LoadShaderIncludes ==
  /\ util_pc = "call"
  /\ IF SubstrThrows(shader_code)
     THEN /\ util_pc' = "threw"
          /\ UNCHANGED <<shader_code, lsi_depth>>
     ELSE IF Included(shader_code)
     THEN IF lsi_depth < MaxRecursion
          THEN /\ shader_code' = NewShaderCode(shader_code, 1)
               /\ lsi_depth' = lsi_depth + 1
               /\ util_pc' = "call"
          ELSE /\ util_pc' = "stack_exhausted"
               /\ UNCHANGED <<shader_code, lsi_depth>>
     ELSE /\ shader_code' = NewShaderCode(shader_code, 1)
          /\ util_pc' = "returned"
          /\ UNCHANGED lsi_depth
  /\ UNCHANGED <<fs_files, filetext>>
  /\ UNCHANGED <<pipe_vars, host_vars, grid_vars, shade_vars, lookup_vars>>

IncludesNext == LoadShaderIncludes

SpecIncludes == IncludesInit /\ [][IncludesNext]_vars

\* A call that can be made is made.
SpecIncludesFair == SpecIncludes /\ WF_vars(IncludesNext)

\* C29: LoadShaderIncludes returns, whatever the shader source and the
\* include files, and no line of what it returns begins with #include.
C29_IncludesTerminate ==
  /\ <>(util_pc = "returned")
  /\ [](util_pc = "returned" =>
          \A i \in DOMAIN shader_code : ~StartsWith(shader_code[i], include_phrase))

\* ------------------------------------------------------------ Util::LoadFile
LoadAlphabet == {SkipBeginLine, IfLine, SkipEndLine, TextLine("t1"), TextLine("t2")}

\* The file LoadFile is called on.
LoadedFile == "a"

\* LoadFile is about to be called on a file that holds some lines, or on a
\* name no file has.
LoadFileInit ==
  /\ \E file \in {File(lines) : lines \in SeqsUpTo(LoadAlphabet, MaxLoadLines)} \cup {NoFile} :
       fs_files = [f \in FileNames |-> IF f = LoadedFile THEN file ELSE NoFile]
  /\ shader_code = <<>>
  /\ lsi_depth = 0
  /\ util_pc = "call"
  /\ filetext = <<>>
  /\ PipelineOff

\* Util::LoadFile(filename), the whole call.
LoadFileCall(filename) ==
  /\ util_pc = "call"
  /\ filetext' = LoadFile(filename)
  /\ util_pc' = "returned"
  /\ UNCHANGED <<fs_files, shader_code, lsi_depth>>
  /\ UNCHANGED <<pipe_vars, host_vars, grid_vars, shade_vars, lookup_vars>>

LoadFileNext == LoadFileCall(LoadedFile)

SpecLoadFile == LoadFileInit /\ [][LoadFileNext]_vars

\* A line that opens a conditional block, and one that closes one.
OpensBlock(line) == line.head \in {skip_begin_phrase, "#if"}
ClosesBlock(line) == line.head = skip_end_phrase

\* The lines from line i on outside every #ifdef __cplusplus block, open
\* being the number of conditional blocks open inside such a block before
\* line i (0: line i is outside).
RECURSIVE OutsideCppBlocks(_, _, _)
OutsideCppBlocks(lines, i, open) ==
  IF i > Len(lines) THEN <<>>
  ELSE IF open = 0
       THEN IF StartsWith(lines[i], skip_begin_phrase)
            THEN OutsideCppBlocks(lines, i + 1, 1)
            ELSE <<lines[i]>> \o OutsideCppBlocks(lines, i + 1, 0)
       ELSE OutsideCppBlocks(lines, i + 1,
              IF OpensBlock(lines[i]) THEN open + 1
              ELSE IF ClosesBlock(lines[i]) THEN open - 1 ELSE open)

\* C30: LoadFile returns the file's lines in their order without the lines
\* of each #ifdef __cplusplus block, from its first line through the #endif
\* that closes it, nested #if/#endif pairs included; every other line is
\* kept, #endif lines outside such blocks too.
C30_LoadFileDropsCppBlocks ==
  (util_pc = "returned" /\ fs_files[LoadedFile].exists) =>
    filetext = OutsideCppBlocks(fs_files[LoadedFile].lines, 1, 0)

====
